---------------------------- MODULE Spec2Model ----------------------------
(***************************************************************************)
(* A model of phonolammps/iofile.py: the mass-to-element resolver, the     *)
(* POSCAR reader and writer, and the LAMMPS structure extractor.           *)
(*                                                                         *)
(* Text is modelled as TLA+ strings (sequences of characters): the writer  *)
(* concatenates literally what the code concatenates and the reader splits *)
(* that text on newlines and on whitespace, as the code does.  Real        *)
(* numbers are exact decimals (sign, digit sequence, number of fraction    *)
(* digits), so that formatting with a fixed number of decimals loses       *)
(* digits and parsing recovers only what was written.                      *)
(***************************************************************************)
EXTENDS Integers, Sequences, FiniteSets, TLC

VARIABLES
    atom_data,   \* the reference element table imported by mass_to_symbol
    structure,   \* the Structure held by the caller (the writer's input)
    fs,          \* the content of the POSCAR path: NoFile or the file's text
    origin,      \* how the file at the path came to be (history of the caller)
    call,        \* the last call of mass_to_symbol or get_structure_from_lammps,
                 \* with its arguments and its result
    ret          \* per path, the outcome of the last get_structure_from_poscar

vars == <<atom_data, structure, fs, origin, call, ret>>

-----------------------------------------------------------------------------
(* Bounds of the model *)

MaxAtoms == 3      \* atoms in a Structure
MaxTable == 3      \* entries in a reference table
MaxMass  == 13     \* largest input mass, in tenths of an atomic mass unit

-----------------------------------------------------------------------------
(* Python values *)

None == [some |-> FALSE]
Some(v) == [some |-> TRUE, val |-> v]

Min(a, b) == IF a <= b THEN a ELSE b
Max(a, b) == IF a >= b THEN a ELSE b
Abs(a) == IF a < 0 THEN -a ELSE a

\* the largest element of a non-empty finite set of integers
MaxOf(S) == CHOOSE m \in S : \A n \in S : n <= m
MinOf(S) == CHOOSE m \in S : \A n \in S : m <= n

\* the k-th smallest element (k = 1 the smallest) of a set of integers
Kth(S, k) == CHOOSE m \in S : Cardinality({n \in S : n < m}) = k - 1

RECURSIVE SumSeq(_)
SumSeq(s) == IF s = <<>> THEN 0 ELSE Head(s) + SumSeq(Tail(s))

RECURSIVE Flatten(_)
Flatten(ss) == IF ss = <<>> THEN <<>> ELSE Head(ss) \o Flatten(Tail(ss))

\* the sequence f itself, with its elements computed once
Tuple(f) == f \o <<>>

Repeat(x, n) == Tuple([i \in 1..Max(n, 0) |-> x])

-----------------------------------------------------------------------------
(* Characters, str.split() and str.split('\n') *)

Ch(s, i) == SubSeq(s, i, i)

DigitChars == "0123456789"
IsDigit(c) == \E d \in 1..10 : Ch(DigitChars, d) = c
DigitVal(c) == (CHOOSE d \in 1..10 : Ch(DigitChars, d) = c) - 1
DigitChar(d) == Ch(DigitChars, d + 1)

IsSpace(c) == c \in {" ", "\t", "\n", "\r"}

\* text.split('\n'): the pieces between newlines, empty pieces kept
SplitLines(text) ==
    LET nl == {i \in 1..Len(text) : Ch(text, i) = "\n"}
        n  == Cardinality(nl)
        first(k) == IF k = 1 THEN 1 ELSE Kth(nl, k - 1) + 1
        last(k)  == IF k = n + 1 THEN Len(text) ELSE Kth(nl, k) - 1
    IN  Tuple([k \in 1..(n + 1) |-> SubSeq(text, first(k), last(k))])

\* line.split(): the maximal runs of non-whitespace characters
Split(line) ==
    LET n == Len(line)
        starts == {i \in 1..n : /\ ~IsSpace(Ch(line, i))
                                /\ (i = 1 \/ IsSpace(Ch(line, i - 1)))}
        stop(i) == MinOf({j \in i..n : j = n \/ IsSpace(Ch(line, j + 1))})
    IN  Tuple([k \in 1..Cardinality(starts) |->
                  LET i == Kth(starts, k) IN SubSeq(line, i, stop(i))])

\* ' '.join(tokens)
RECURSIVE Join(_)
Join(tokens) ==
    IF tokens = <<>> THEN ""
    ELSE IF Len(tokens) = 1 THEN tokens[1]
    ELSE tokens[1] \o " " \o Join(Tail(tokens))

-----------------------------------------------------------------------------
(* Exact decimals: value = (-1)^neg * mant * 10^(-exp), mant a digit        *)
(* sequence without leading zeros, without trailing fraction zeros.        *)

Zeros(n) == Tuple([i \in 1..Max(n, 0) |-> 0])

Canon(neg, mant, exp) ==
    LET n  == Len(mant)
        tz == MaxOf({k \in 0..Min(exp, n) :
                        \A j \in 1..k : mant[n - j + 1] = 0})
        m1 == SubSeq(mant, 1, n - tz)
        lz == MaxOf({k \in 0..Len(m1) : \A j \in 1..k : m1[j] = 0})
    IN  [neg |-> neg, mant |-> SubSeq(m1, lz + 1, Len(m1)), exp |-> exp - tz]

IsZero(x) == x.mant = <<>>

\* numeric equality (-0.0 == 0.0)
NumEq(x, y) == \/ IsZero(x) /\ IsZero(y)
               \/ x = y

RECURSIVE Inc(_)
Inc(ds) ==
    IF ds = <<>> THEN <<1>>
    ELSE LET n == Len(ds) IN
         IF ds[n] < 9 THEN [ds EXCEPT ![n] = @ + 1]
         ELSE Inc(SubSeq(ds, 1, n - 1)) \o <<0>>

RECURSIVE AddC(_, _, _)
AddC(a, b, c) ==
    IF a = <<>> /\ b = <<>> THEN (IF c = 0 THEN <<>> ELSE <<c>>)
    ELSE LET la == IF a = <<>> THEN 0 ELSE a[Len(a)]
             lb == IF b = <<>> THEN 0 ELSE b[Len(b)]
             fa == IF a = <<>> THEN <<>> ELSE SubSeq(a, 1, Len(a) - 1)
             fb == IF b = <<>> THEN <<>> ELSE SubSeq(b, 1, Len(b) - 1)
             s  == la + lb + c
         IN  AddC(fa, fb, s \div 10) \o <<s % 10>>

RECURSIVE MulC(_, _, _)
MulC(a, k, c) ==
    IF a = <<>> THEN (IF c = 0 THEN <<>> ELSE <<c>>)
    ELSE LET p == a[Len(a)] * k + c
         IN  MulC(SubSeq(a, 1, Len(a) - 1), k, p \div 10) \o <<p % 10>>

RECURSIVE MulDigits(_, _)
MulDigits(a, b) ==
    IF b = <<>> THEN <<>>
    ELSE AddC(MulC(a, b[Len(b)], 0),
              MulDigits(a, SubSeq(b, 1, Len(b) - 1)) \o <<0>>, 0)

\* x * y
Mul(x, y) == Canon(x.neg # y.neg, MulDigits(x.mant, y.mant), x.exp + y.exp)

RECURSIVE DigitString(_)
DigitString(ds) ==
    IF ds = <<>> THEN "" ELSE DigitChar(Head(ds)) \o DigitString(Tail(ds))

\* float(token): plain decimal notation (sign, digits, at most one point);
\* every other token of the modelled files is rejected with ValueError
ParseFloat(token) ==
    LET signed == Len(token) >= 1 /\ Ch(token, 1) \in {"-", "+"}
        body   == IF signed THEN SubSeq(token, 2, Len(token)) ELSE token
        n      == Len(body)
        points == {i \in 1..n : Ch(body, i) = "."}
        wellformed == /\ Cardinality(points) <= 1
                      /\ \A i \in (1..n) \ points : IsDigit(Ch(body, i))
                      /\ n - Cardinality(points) >= 1
        p      == IF points = {} THEN n + 1 ELSE MinOf(points)
        digs   == Tuple([i \in 1..(n - Cardinality(points)) |->
                     DigitVal(Ch(body, IF i < p THEN i ELSE i + 1))])
    IN  IF wellformed
        THEN Some(Canon(signed /\ Ch(token, 1) = "-", digs, n + 1 - Min(p + 1, n + 1)))
        ELSE None

RECURSIVE DigitsValue(_)
DigitsValue(ds) ==
    IF ds = <<>> THEN 0 ELSE 10 * DigitsValue(SubSeq(ds, 1, Len(ds) - 1)) + ds[Len(ds)]

\* int(token): sign and digits only
ParseInt(token) ==
    LET signed == Len(token) >= 1 /\ Ch(token, 1) \in {"-", "+"}
        body   == IF signed THEN SubSeq(token, 2, Len(token)) ELSE token
        n      == Len(body)
        wellformed == n >= 1 /\ \A i \in 1..n : IsDigit(Ch(body, i))
        v      == DigitsValue([i \in 1..n |-> DigitVal(Ch(body, i))])
    IN  IF wellformed
        THEN Some(IF signed /\ Ch(token, 1) = "-" THEN -v ELSE v)
        ELSE None

\* the digits of x rounded (half to even) to d fraction digits, as a digit
\* sequence of at least d + 1 digits
RoundDigits(x, d) ==
    LET n    == Len(x.mant)
        cut  == x.exp - d
        kept == IF cut <= 0 THEN x.mant \o Zeros(-cut)
                ELSE SubSeq(x.mant, 1, n - cut)
        drop == IF cut <= 0 THEN <<>>
                ELSE Zeros(cut - n) \o SubSeq(x.mant, Max(n - cut, 0) + 1, n)
        rest == IF drop = <<>> THEN <<>> ELSE Tail(drop)
        up   == /\ drop # <<>>
                /\ \/ drop[1] > 5
                   \/ drop[1] = 5 /\ \E i \in 1..Len(rest) : rest[i] # 0
                   \/ /\ drop[1] = 5
                      /\ \A i \in 1..Len(rest) : rest[i] = 0
                      /\ kept # <<>>
                      /\ kept[Len(kept)] % 2 = 1
        r    == IF up THEN Inc(kept) ELSE kept
    IN  Zeros(d + 1 - Len(r)) \o r

Blanks == "                                        "

\* the rounded digits r with the point before the last d of them, signed
PlaceDigits(neg, r, d) ==
    (IF neg THEN "-" ELSE "")
        \o DigitString(SubSeq(r, 1, Len(r) - d))
        \o "." \o DigitString(SubSeq(r, Len(r) - d + 1, Len(r)))

\* right-justified in a field of w characters (w at most Len(Blanks))
Justify(body, w) ==
    IF Len(body) >= w THEN body ELSE SubSeq(Blanks, 1, w - Len(body)) \o body

\* '{:w.df}'.format(x), for d >= 1
Format(x, w, d) == Justify(PlaceDigits(x.neg, RoundDigits(x, d), d), w)

\* str(i) of an integer
RECURSIVE NatDigits(_)
NatDigits(n) == IF n < 10 THEN <<n>> ELSE NatDigits(n \div 10) \o <<n % 10>>

Str(i) == (IF i < 0 THEN "-" ELSE "") \o DigitString(NatDigits(Abs(i)))

-----------------------------------------------------------------------------
(* mass_to_symbol.  Masses and tolerances are integers counting tenths of  *)
(* an atomic mass unit; an entry of the reference table is the tuple       *)
(* (atomic number, symbol, name, mass or None).                            *)

tolerance_default == 5     \* tolerance=5e-1

ElementSymbols == <<"X", "H", "He", "Li", "Be", "B">>
ElementNames == <<"X", "Hydrogen", "Helium", "Lithium", "Beryllium", "Boron">>

\* element[1] and element[3] of the code
SymbolOf(element) == element[2]
MassOf(element) == element[4]

\* a scan in which the last entry within tolerance wins
RECURSIVE scan_last_match(_, _, _)
scan_last_match(table, mass, tolerance) ==
    IF table = <<>> THEN "H"
    ELSE LET element == table[Len(table)] IN
         IF MassOf(element) # None /\ Abs(mass - MassOf(element).val) < tolerance
         THEN SymbolOf(element)
         ELSE scan_last_match(SubSeq(table, 1, Len(table) - 1), mass, tolerance)

\* a scan whose comparison with the tolerance is not strict
RECURSIVE scan_inclusive(_, _, _)
scan_inclusive(table, mass, tolerance) ==
    IF table = <<>> THEN "H"
    ELSE LET element == Head(table) IN
         IF MassOf(element) # None /\ Abs(mass - MassOf(element).val) <= tolerance
         THEN SymbolOf(element)
         ELSE scan_inclusive(Tail(table), mass, tolerance)

RECURSIVE scan_atom_data(_, _, _)
scan_atom_data(table, mass, tolerance) ==
    IF table = <<>> THEN "H"
    ELSE LET element == Head(table) IN
         IF MassOf(element) # None /\ Abs(mass - MassOf(element).val) < tolerance
         THEN SymbolOf(element)
         ELSE scan_atom_data(Tail(table), mass, tolerance)

mass_to_symbol(table, mass, tolerance) == scan_atom_data(table, mass, tolerance)

-----------------------------------------------------------------------------
(* PhonopyAtoms(...): the Structure, as the arguments it is built from *)

PhonopyAtoms(symbols, positions, scaled_positions, cell, masses) ==
    [symbols |-> symbols, positions |-> positions,
     scaled_positions |-> scaled_positions, cell |-> cell, masses |-> masses]

get_cell(s) == s.cell
get_chemical_symbols(s) == s.symbols
get_scaled_positions(s) == s.scaled_positions.val
get_positions(s) == s.positions.val

-----------------------------------------------------------------------------
(* get_structure_from_lammps.  lmp is what the engine session reports after *)
(* the script and 'run 0': natoms, the global scalars, and the per-atom and *)
(* per-type arrays (type_mass is indexed by type, from 1).                  *)

\* the matrix left as assembled, without .T
Untransposed(m) == m

Transpose(m) == Tuple([i \in 1..3 |-> Tuple([j \in 1..3 |-> m[j][i]])])

get_structure_from_lammps(table, lmp) ==
    LET na  == lmp.natoms
        xlo == lmp.boxxlo
        xhi == lmp.boxxhi
        ylo == lmp.boxylo
        yhi == lmp.boxyhi
        zlo == lmp.boxzlo
        zhi == lmp.boxzhi
        xy  == lmp.xy
        yz  == lmp.yz
        xz  == lmp.xz
        unitcell == Transpose(<< <<xhi - xlo, xy, xz>>,
                                 <<0, yhi - ylo, yz>>,
                                 <<0, 0, zhi - zlo>> >>)
        positions == Tuple([i \in 1..na |-> Tuple([j \in 1..3 |-> lmp.x[3 * (i - 1) + j]])])
        masses    == Tuple([i \in 1..na |-> lmp.mass[lmp.type[i]]])
        symbols   == Tuple([i \in 1..na |->
                        mass_to_symbol(table, masses[i], tolerance_default)])
    IN  PhonopyAtoms(symbols, Some(positions), None, unitcell, Some(masses))

-----------------------------------------------------------------------------
(* get_structure_from_poscar *)

NoFile == [isfile |-> FALSE]
File(text) == [isfile |-> TRUE, text |-> text]

number_of_dimensions == 3      \* the default of the parameter

Raise(err, line, layout) == [tag |-> "raise", err |-> err, line |-> line, layout |-> layout]
Return(val, layout) == [tag |-> "return", val |-> val, layout |-> layout]
Ok(val) == [tag |-> "ok", val |-> val]

\* data_lines[i], i counted from 0
HasLine(data_lines, i) == i + 1 <= Len(data_lines)
LineAt(data_lines, i) == data_lines[i + 1]

\* np.array(tokens, dtype=int)
IntValues(values) ==
    IF \E i \in 1..Len(values) : values[i] = None
    THEN None
    ELSE Some(Tuple([i \in 1..Len(values) |-> values[i].val]))

IntArray(tokens) == IntValues(Tuple([i \in 1..Len(tokens) |-> ParseInt(tokens[i])]))

\* tokens[0:3]
Slice3(tokens) == SubSeq(tokens, 1, Min(3, Len(tokens)))

\* [data_lines[i].split() for i in indices], each row cut to [0:3] when sliced
TokenRows(data_lines, indices, sliced) ==
    Tuple([k \in 1..Len(indices) |->
        IF sliced THEN Slice3(Split(LineAt(data_lines, indices[k])))
        ELSE Split(LineAt(data_lines, indices[k]))])

\* the conversion of np.array(rows, dtype=float): ValueError for a token that
\* is no number
FloatValues(values, indices, layout) ==
    LET bad == {k \in 1..Len(values) : \E j \in 1..Len(values[k]) : values[k][j] = None}
    IN  IF bad # {} THEN Raise("ValueError", indices[MinOf(bad)], layout)
        ELSE Ok(Tuple([k \in 1..Len(values) |->
                    Tuple([j \in 1..Len(values[k]) |-> values[k][j].val])]))

\* np.array(rows, dtype=float): ValueError for rows of unequal length
FloatArray(rows, indices, layout) ==
    LET ragged == {k \in 1..Len(rows) : Len(rows[k]) # Len(rows[1])}
    IN  IF ragged # {} THEN Raise("ValueError", indices[MinOf(ragged)], layout)
        ELSE FloatValues(Tuple([k \in 1..Len(rows) |->
                             Tuple([j \in 1..Len(rows[k]) |-> ParseFloat(rows[k][j])])]),
                         indices, layout)

\* np.array([data_lines[i].split() for i in indices], dtype=float):
\* IndexError while the list is built, ValueError when it is converted
FloatRows(data_lines, indices, sliced, layout) ==
    LET missing == {k \in 1..Len(indices) : ~HasLine(data_lines, indices[k])}
    IN  IF missing # {} THEN Raise("IndexError", indices[MinOf(missing)], layout)
        ELSE FloatArray(TokenRows(data_lines, indices, sliced), indices, layout)

\* the loop over the species names and the locals the layout leaves behind
expand_types(number_of_types, coordinates_type, rows, names, species_at, layout) ==
    IF rows.tag = "raise" THEN rows
    ELSE IF Len(names) > Len(number_of_types) THEN Raise("IndexError", species_at, layout)
    ELSE Ok([atomic_types |-> Flatten(Tuple([i \in 1..Len(names) |->
                                  Repeat(names[i], number_of_types[i])])),
             scaled_positions |-> IF coordinates_type \in {"D", "d"}
                                  THEN Some(rows.val) ELSE None,
             positions |-> IF coordinates_type \in {"D", "d"}
                           THEN None ELSE Some(rows.val)])

\* the marker and the coordinate rows, once the counts are parsed
read_positions(data_lines, number_of_types, counts_at, marker_at, rows_at, species_at, layout) ==
    IF number_of_types = None THEN Raise("ValueError", counts_at, layout)
    ELSE IF ~HasLine(data_lines, marker_at) \/ Len(LineAt(data_lines, marker_at)) = 0
         THEN Raise("IndexError", marker_at, layout)
    ELSE expand_types(number_of_types.val,
                      Ch(LineAt(data_lines, marker_at), 1),
                      FloatRows(data_lines,
                                Tuple([k \in 1..Max(SumSeq(number_of_types.val), 0) |->
                                          rows_at + k - 1]),
                                TRUE, layout),
                      Split(LineAt(data_lines, species_at)), species_at, layout)

\* the body shared by the two layouts: per-species counts on line counts_at,
\* the coordinate-mode marker on line marker_at, coordinate rows from line
\* rows_at, species names on line species_at
read_layout(data_lines, counts_at, marker_at, rows_at, species_at, layout) ==
    IF ~HasLine(data_lines, counts_at) THEN Raise("IndexError", counts_at, layout)
    ELSE read_positions(data_lines, IntArray(Split(LineAt(data_lines, counts_at))),
                        counts_at, marker_at, rows_at, species_at, layout)

\* the try block
modern_layout(data_lines, dims) ==
    read_layout(data_lines, 3 + dims, 4 + dims, 8, 5, "modern")

\* the except ValueError block
\* a legacy reading that takes the coordinate rows from line 8
legacy_layout_rows_at_8(data_lines) ==
    read_layout(data_lines, 5, 6, 8, 0, "legacy")

legacy_layout(data_lines) ==
    read_layout(data_lines, 5, 6, 7, 0, "legacy")

\* the errors of the try block that the except clause catches
Caught(outcome) == outcome.tag = "raise" /\ outcome.err = "ValueError"

\* which of the parsed representations the return statement hands over
ReturnedStructure(parsed, direct_cell) ==
    PhonopyAtoms(parsed.atomic_types, None, parsed.scaled_positions, direct_cell, None)

return_structure(parsed, direct_cell, layout) ==
    IF parsed.tag = "raise" THEN parsed
    ELSE Return(ReturnedStructure(parsed.val, direct_cell), layout)

\* try: modern layout; except ValueError: legacy layout
try_layouts(data_lines, modern, direct_cell) ==
    IF Caught(modern)
    THEN return_structure(legacy_layout(data_lines), direct_cell, "legacy")
    ELSE return_structure(modern, direct_cell, "modern")

\* direct_cell *= multiply
ScaleCell(cell, multiply) ==
    Tuple([i \in 1..Len(cell) |->
        Tuple([j \in 1..Len(cell[i]) |-> Mul(cell[i][j], multiply)])])

read_species(data_lines, dims, multiply, cell) ==
    IF cell.tag = "raise" THEN cell
    ELSE try_layouts(data_lines, modern_layout(data_lines, dims),
                     ScaleCell(cell.val, multiply))

read_cell(data_lines, dims, multiply) ==
    IF multiply = None THEN Raise("ValueError", 1, "none")
    ELSE read_species(data_lines, dims, multiply.val,
                      FloatRows(data_lines, Tuple([i \in 1..dims |-> 1 + i]), FALSE, "none"))

\* float(line): surrounding whitespace is allowed, nothing else
FloatOfLine(tokens) == IF Len(tokens) = 1 THEN ParseFloat(tokens[1]) ELSE None

read_lines(data_lines, dims) ==
    IF ~HasLine(data_lines, 1) THEN Raise("IndexError", 1, "none")
    ELSE read_cell(data_lines, dims, FloatOfLine(Split(LineAt(data_lines, 1))))

get_structure_from_poscar(file, dims) ==
    IF ~file.isfile THEN Raise("SystemExit", 0, "none")
    ELSE read_lines(SplitLines(file.text), dims)

-----------------------------------------------------------------------------
(* generate_VASP_structure *)

\* the characters of the modelled symbols, in code-point order
CodePoints == "0123456789ABCDEFGHIJKLMNOPQRSTUVWXYZabcdefghijklmnopqrstuvwxyz"
CodePoint(c) == CHOOSE i \in 1..Len(CodePoints) : Ch(CodePoints, i) = c

\* a < b as numpy orders strings
LexLess(a, b) ==
    LET diff == {i \in 1..Min(Len(a), Len(b)) : Ch(a, i) # Ch(b, i)}
    IN  IF diff = {} THEN Len(a) < Len(b)
        ELSE CodePoint(Ch(a, MinOf(diff))) < CodePoint(Ch(b, MinOf(diff)))

\* the distinct values in ascending order
SortedValues(values) ==
    Tuple([k \in 1..Cardinality(values) |->
        CHOOSE v \in values : Cardinality({u \in values : LexLess(u, v)}) = k - 1])

\* the index (from 0) of the first occurrence of each value
FirstIndex(types, values) ==
    Tuple([k \in 1..Len(values) |->
        MinOf({i \in 1..Len(types) : types[i] = values[k]}) - 1])

\* np.unique(types, return_index=True): <<sorted distinct values, first indices>>
np_unique(types) ==
    << SortedValues({types[i] : i \in 1..Len(types)}),
       FirstIndex(types, SortedValues({types[i] : i \in 1..Len(types)})) >>

\* np.argsort of distinct integers: positions (from 1) in ascending order of value
np_argsort(a) ==
    Tuple([k \in 1..Len(a) |->
        CHOOSE j \in 1..Len(a) : Cardinality({l \in 1..Len(a) : a[l] < a[j]}) = k - 1])

np_diff(a) == Tuple([i \in 1..(Len(a) - 1) |-> a[i + 1] - a[i]])

\* a[sort_index]
Take(a, sort_index) == Tuple([k \in 1..Len(sort_index) |-> a[sort_index[k]]])

\* the species left in the sorted order of np.unique
elements_sorted(atom_type_unique) == atom_type_unique[1]

\* elements = np.array(atom_type_unique[0])[sort_index]
elements_of(atom_type_unique) ==
    Take(atom_type_unique[1], np_argsort(atom_type_unique[2]))

\* elements_count = np.diff(np.append(np.array(atom_type_unique[1])[sort_index], [len(types)]))
elements_count_of(atom_type_unique, ntypes) ==
    np_diff(Take(atom_type_unique[2], np_argsort(atom_type_unique[2])) \o <<ntypes>>)

RECURSIVE Concat(_)
Concat(strings) == IF strings = <<>> THEN "" ELSE Head(strings) \o Concat(Tail(strings))

JoinRow(f, sep) == f[1] \o sep \o f[2] \o sep \o f[3] \o "\n"

\* '{0:w.df}<sep>{1:w.df}<sep>{2:w.df}\n'.format(*row)
format_row(row, w, d, sep) == JoinRow(Tuple([j \in 1..3 |-> Format(row[j], w, d)]), sep)

\* '{0:20.10f} {1:20.10f} {2:20.10f}\n'.format(*row)
cartesian_row(row) == format_row(row, 20, 10, " ")

\* a fractional row written with 10 decimals
direct_row_10_decimals(row) == format_row(row, 15, 10, "   ")

\* '{0:15.15f}   {1:15.15f}   {2:15.15f}\n'.format(*row)
direct_row(row) == format_row(row, 15, 15, "   ")

cartesian_rows(rows) == Concat(Tuple([i \in 1..Len(rows) |-> cartesian_row(rows[i])]))
direct_rows(rows) == Concat(Tuple([i \in 1..Len(rows) |-> direct_row(rows[i])]))

\* ' '.join([str(i) for i in elements_count])
JoinInts(counts) == Join(Tuple([i \in 1..Len(counts) |-> Str(counts[i])]))

\* the text assembled from the species and their counts
vasp_text(s, scaled, atom_type_unique) ==
    "Generated using phonoLAMMPS\n"
        \o "1.0\n"
        \o cartesian_rows(get_cell(s))
        \o Join(elements_of(atom_type_unique))
        \o " \n"
        \o JoinInts(elements_count_of(atom_type_unique, Len(get_chemical_symbols(s))))
        \o (IF scaled
            THEN "\nDirect\n" \o direct_rows(get_scaled_positions(s))
            ELSE "\nCartesian\n" \o cartesian_rows(get_positions(s)))

generate_VASP_structure(s, scaled) ==
    vasp_text(s, scaled, np_unique(get_chemical_symbols(s)))

-----------------------------------------------------------------------------
(* Inputs: the reference tables, the engine's reports, the Structures and   *)
(* the POSCAR files handed to the module                                    *)

\* recorded masses of the modelled tables: every fourth tenth of a unit, so
\* that neighbouring entries lie within the default tolerance of one mass
EntryMasses == {m \in 1..MaxMass : m % 4 = 0}

TableOf(masses) ==
    Tuple([i \in 1..Len(masses) |-> <<i - 1, ElementSymbols[i], ElementNames[i], masses[i]>>])

Tables ==
    UNION {{TableOf(ms) : ms \in [1..n -> {None} \cup {Some(m) : m \in EntryMasses}]} :
              n \in 0..MaxTable}

Tolerances == {tolerance_default, 1}

\* engine boxes: the six bounds and the three tilt factors
BoxBounds == {<<0, 10, 0, 10, 0, 10>>, <<-1, 4, -2, 5, 1, 7>>}
BoxTilts == {<<1, 0, 0>>, <<0, 0, 0>>, <<1, 2, 3>>, <<-1, 0, 2>>}
TypeMass == <<4, 12>>

EngineReports ==
    {[natoms |-> Len(ty),
      boxxlo |-> b[1], boxxhi |-> b[2], boxylo |-> b[3], boxyhi |-> b[4],
      boxzlo |-> b[5], boxzhi |-> b[6],
      xy |-> t[1], yz |-> t[2], xz |-> t[3],
      x |-> Tuple([i \in 1..(3 * Len(ty)) |-> i]),
      type |-> Tuple(ty),
      mass |-> TypeMass] :
        b \in BoxBounds, t \in BoxTilts,
        ty \in UNION {[1..n -> 1..Len(TypeMass)] : n \in 0..MaxAtoms}}

Dec(token) == ParseFloat(token).val
Row3(a, b, c) == <<Dec(a), Dec(b), Dec(c)>>

\* a cell with the fractional and the Cartesian coordinates of its atom sites
Geometries == {
    \* cubic, few decimals
    [cell   |-> <<Row3("5.43", "0", "0"), Row3("0", "5.43", "0"), Row3("0", "0", "5.43")>>,
     scaled |-> <<Row3("0", "0", "0"), Row3("0.25", "0.25", "0.25"),
                  Row3("0.5", "0.5", "0"), Row3("0.75", "0.75", "0.25")>>,
     cart   |-> <<Row3("0", "0", "0"), Row3("1.3575", "1.3575", "1.3575"),
                  Row3("2.715", "2.715", "0"), Row3("4.0725", "4.0725", "1.3575")>>],
    \* unit cell, coordinates with more decimals than are written
    [cell   |-> <<Row3("1", "0", "0"), Row3("0", "1", "0"), Row3("0", "0", "1")>>,
     scaled |-> <<Row3("0.12345678901234568", "0.9999999999999999", "-0.00000000000000004"),
                  Row3("0.3333333333333333", "0.6666666666666666", "0.5"),
                  Row3("0.00000000005", "0.2", "0.12345678905"),
                  Row3("0.75", "0.1", "0.0000000000000005")>>,
     cart   |-> <<Row3("0.12345678901234568", "0.9999999999999999", "-0.00000000000000004"),
                  Row3("0.3333333333333333", "0.6666666666666666", "0.5"),
                  Row3("0.00000000005", "0.2", "0.12345678905"),
                  Row3("0.75", "0.1", "0.0000000000000005")>>],
    \* hexagonal-like, lattice vectors with more decimals than are written
    [cell   |-> <<Row3("3", "0", "0"),
                  Row3("-1.4999999999999998", "2.598076211353316", "0"),
                  Row3("0.000000000012", "0", "4.8")>>,
     scaled |-> <<Row3("0", "0", "0"), Row3("0", "0", "0.5"),
                  Row3("0", "0", "0.25"), Row3("0", "0", "0.75")>>,
     cart   |-> <<Row3("0", "0", "0"), Row3("0.000000000006", "0", "2.4"),
                  Row3("0.000000000003", "0", "1.2"), Row3("0.000000000009", "0", "3.6")>>] }

Species == {"Si", "O"}
SymbolSeqs == UNION {{Tuple(f) : f \in [1..n -> Species]} : n \in 1..MaxAtoms}

Site(n) == ((n - 1) % 4) + 1

Structures ==
    {PhonopyAtoms(syms,
                  Some(Tuple([i \in 1..Len(syms) |-> g.cart[Site(i)]])),
                  Some(Tuple([i \in 1..Len(syms) |-> g.scaled[Site(i)]])),
                  g.cell, None) : g \in Geometries, syms \in SymbolSeqs}

\* the runs of equal symbols: the species blocks a POSCAR file declares
RunStarts(symbols) == {i \in 1..Len(symbols) : i = 1 \/ symbols[i] # symbols[i - 1]}

RunNames(symbols) ==
    Tuple([k \in 1..Cardinality(RunStarts(symbols)) |-> symbols[Kth(RunStarts(symbols), k)]])

RunCounts(symbols) ==
    Tuple([k \in 1..Cardinality(RunStarts(symbols)) |->
        (IF k = Cardinality(RunStarts(symbols)) THEN Len(symbols) + 1
         ELSE Kth(RunStarts(symbols), k + 1)) - Kth(RunStarts(symbols), k)])

Markers == {"Direct", "direct", "Cartesian"}
Variants == {"plain", "flags", "scaled", "lattice", "coords", "counts"}
Layouts == {"modern", "legacy"}

ChopNewline(t) == SubSeq(t, 1, Len(t) - 1)

\* the lattice block; one token is spoiled in the variant "lattice"
lattice_lines(cell, variant) ==
    Concat(Tuple([i \in 1..3 |->
        IF variant = "lattice" /\ i = 2 THEN "0.0 abc 0.0\n" ELSE cartesian_row(cell[i])]))

\* the counts line; the counts are no integers in the variant "counts"
counts_line(counts, variant) ==
    Join(Tuple([i \in 1..Len(counts) |->
        Str(counts[i]) \o (IF variant = "counts" THEN ".0" ELSE "")]))

\* the coordinate block; one token is spoiled in the variant "coords",
\* selective-dynamics flags follow the coordinates in the variant "flags"
coordinate_lines(rows, direct, variant) ==
    Concat(Tuple([i \in 1..Len(rows) |->
        IF variant = "coords" /\ i = 1 THEN "0.5 0.5x 0.5\n"
        ELSE ChopNewline(IF direct THEN direct_row(rows[i]) ELSE cartesian_row(rows[i]))
             \o (IF variant = "flags" THEN " T T T" ELSE "") \o "\n"]))

\* a POSCAR file of Structure s written by hand or by another program, in
\* the given layout, with the given coordinate-mode marker; the variant
\* "scaled" uses a scale factor of 2
poscar_text(s, layout, marker, variant) ==
    (IF layout = "modern" THEN "silicon oxide" ELSE Join(RunNames(s.symbols))) \o "\n"
        \o (IF variant = "scaled" THEN "2.0" ELSE "1.0") \o "\n"
        \o lattice_lines(s.cell, variant)
        \o (IF layout = "modern" THEN Join(RunNames(s.symbols)) \o "\n" ELSE "")
        \o counts_line(RunCounts(s.symbols), variant) \o "\n"
        \o marker \o "\n"
        \o coordinate_lines(IF Ch(marker, 1) \in {"D", "d"}
                            THEN s.scaled_positions.val ELSE s.positions.val,
                            Ch(marker, 1) \in {"D", "d"}, variant)

-----------------------------------------------------------------------------
(* State *)

NoCall == [fn |-> "none"]
NotCalled == [tag |-> "none"]
Nobody == [by |-> "nobody", marker |-> "", variant |-> ""]

Paths == {"POSCAR", "POSCAR.vasp4"}

PathOf(layout) == IF layout = "modern" THEN "POSCAR" ELSE "POSCAR.vasp4"

NoFiles == [p \in Paths |-> NoFile]

-----------------------------------------------------------------------------
(* The resolver on its own *)

InitResolver ==
    /\ atom_data \in Tables
    /\ structure = None
    /\ fs = NoFiles
    /\ origin = Nobody
    /\ call = NoCall
    /\ ret = [p \in Paths |-> NotCalled]

MassToSymbol(mass, tolerance) ==
    /\ call' = [fn |-> "mass_to_symbol", mass |-> mass, tolerance |-> tolerance,
                result |-> mass_to_symbol(atom_data, mass, tolerance)]
    /\ UNCHANGED <<atom_data, structure, fs, origin, ret>>

NextResolver == \E mass \in 0..MaxMass, tolerance \in Tolerances : MassToSymbol(mass, tolerance)

SpecResolver == InitResolver /\ [][NextResolver]_vars

-----------------------------------------------------------------------------
(* The extractor *)

InitLammps ==
    /\ atom_data \in {t \in Tables : Len(t) <= 1}
    /\ structure = None
    /\ fs = NoFiles
    /\ origin = Nobody
    /\ call = NoCall
    /\ ret = [p \in Paths |-> NotCalled]

GetStructureFromLammps(lmp) ==
    /\ call' = [fn |-> "get_structure_from_lammps", lmp |-> lmp,
                result |-> get_structure_from_lammps(atom_data, lmp)]
    /\ UNCHANGED <<atom_data, structure, fs, origin, ret>>

NextLammps == \E lmp \in EngineReports : lmp.natoms = Len(lmp.type) /\ GetStructureFromLammps(lmp)

SpecLammps == InitLammps /\ [][NextLammps]_vars

-----------------------------------------------------------------------------
(* The POSCAR reader and writer *)

Init ==
    /\ atom_data = <<>>
    /\ structure \in Structures
    /\ fs = NoFiles
    /\ origin = Nobody
    /\ call = NoCall
    /\ ret = [p \in Paths |-> NotCalled]

\* the caller saves the text generate_VASP_structure returns
WritePoscar(scaled) ==
    /\ fs = NoFiles
    /\ fs' = [fs EXCEPT !["POSCAR"] = File(generate_VASP_structure(structure, scaled))]
    /\ origin' = [by |-> "writer", marker |-> IF scaled THEN "Direct" ELSE "Cartesian",
                  variant |-> "plain"]
    /\ ret' = [p \in Paths |-> NotCalled]
    /\ UNCHANGED <<atom_data, structure, call>>

\* the same Structure arrives as a pair of files, one in each layout
ProvidePoscar(marker, variant) ==
    /\ fs = NoFiles
    /\ fs' = [p \in Paths |->
                File(poscar_text(structure,
                                 CHOOSE l \in Layouts : PathOf(l) = p, marker, variant))]
    /\ origin' = [by |-> "author", marker |-> marker, variant |-> variant]
    /\ ret' = [p \in Paths |-> NotCalled]
    /\ UNCHANGED <<atom_data, structure, call>>

RemoveFiles ==
    /\ fs # NoFiles
    /\ fs' = NoFiles
    /\ origin' = Nobody
    /\ ret' = [p \in Paths |-> NotCalled]
    /\ UNCHANGED <<atom_data, structure, call>>

ReadPoscar(path) ==
    /\ ret' = [ret EXCEPT ![path] = get_structure_from_poscar(fs[path], number_of_dimensions)]
    /\ UNCHANGED <<atom_data, structure, fs, origin, call>>

Next ==
    \/ \E scaled \in BOOLEAN : WritePoscar(scaled)
    \/ \E marker \in Markers, variant \in Variants : ProvidePoscar(marker, variant)
    \/ RemoveFiles
    \/ \E path \in Paths : ReadPoscar(path)

Spec == Init /\ [][Next]_vars

-----------------------------------------------------------------------------
(* Vocabulary of the properties *)

Called(p) == ret[p].tag # "none"
Returned(p) == ret[p].tag = "return"

DirectMarker(marker) == Ch(marker, 1) \in {"D", "d"}

\* atoms of one species are contiguous
Contiguous(symbols) ==
    \A i, j, k \in 1..Len(symbols) :
        i < j /\ j < k /\ symbols[i] = symbols[k] => symbols[j] = symbols[i]

\* the digits of |x| * 10^d, cut after the d-th decimal
CutDigits(x, d) ==
    IF IsZero(x) THEN <<>>
    ELSE IF x.exp <= d THEN x.mant \o Zeros(d - x.exp)
    ELSE SubSeq(x.mant, 1, Len(x.mant) - (x.exp - d))

\* r has at most d decimals and differs from x by less than one unit of the
\* d-th decimal: r is x as far as d written decimals can tell
EqualToPrecision(r, x, d) ==
    /\ r.exp <= d
    /\ IsZero(r) \/ r.neg = x.neg
    /\ IF x.exp <= d THEN NumEq(r, x)
       ELSE CutDigits(r, d) \in {CutDigits(x, d), Inc(CutDigits(x, d))}

RowsEqualToPrecision(rs, xs, d) ==
    /\ Len(rs) = Len(xs)
    /\ \A i \in 1..Len(xs) :
          /\ Len(rs[i]) = Len(xs[i])
          /\ \A j \in 1..Len(xs[i]) : EqualToPrecision(rs[i][j], xs[i][j], d)

RowsEqual(rs, xs) ==
    /\ Len(rs) = Len(xs)
    /\ \A i \in 1..Len(xs) :
          /\ Len(rs[i]) = Len(xs[i])
          /\ \A j \in 1..Len(xs[i]) : NumEq(rs[i][j], xs[i][j])

\* the indices of the table entries whose recorded mass is within tolerance
Matching(table, mass, tolerance) ==
    {i \in 1..Len(table) :
        table[i][4] # None /\ Abs(mass - table[i][4].val) < tolerance}

\* the indices at which a species occurs for the first time
FirstOccurrences(symbols) ==
    {i \in 1..Len(symbols) : \A j \in 1..(i - 1) : symbols[j] # symbols[i]}

-----------------------------------------------------------------------------
(* Properties *)

\* C1: every POSCAR file that get_structure_from_poscar parses yields a
\* Structure built with exactly one position representation, chosen by the
\* coordinate-mode marker: scaled_positions for 'D' or 'd', Cartesian
\* positions otherwise; never neither and never both.
C1_ExactlyOneRepresentation ==
    \A p \in Paths :
        Returned(p) =>
            IF DirectMarker(origin.marker)
            THEN ret[p].val.scaled_positions # None /\ ret[p].val.positions = None
            ELSE ret[p].val.positions # None /\ ret[p].val.scaled_positions = None

\* C2, as stated: the text written in scaled mode for a Structure with
\* contiguous species is read back, under the modern layout, as the same
\* symbols, the same cell, and the fractional positions up to the 15 written
\* decimals.
C2_ScaledRoundTripExactCell ==
    origin.by = "writer" /\ origin.marker = "Direct" /\ Contiguous(structure.symbols)
        /\ Called("POSCAR")
    => /\ Returned("POSCAR")
       /\ ret["POSCAR"].layout = "modern"
       /\ ret["POSCAR"].val.symbols = structure.symbols
       /\ RowsEqual(ret["POSCAR"].val.cell, structure.cell)
       /\ ret["POSCAR"].val.scaled_positions # None
       /\ RowsEqualToPrecision(ret["POSCAR"].val.scaled_positions.val,
                               structure.scaled_positions.val, 15)

\* C2, amended: as above, with the cell equal up to the 10 decimals the
\* writer gives a lattice component.
C2_ScaledRoundTrip ==
    origin.by = "writer" /\ origin.marker = "Direct" /\ Contiguous(structure.symbols)
        /\ Called("POSCAR")
    => /\ Returned("POSCAR")
       /\ ret["POSCAR"].layout = "modern"
       /\ ret["POSCAR"].val.symbols = structure.symbols
       /\ RowsEqualToPrecision(ret["POSCAR"].val.cell, structure.cell, 10)
       /\ ret["POSCAR"].val.scaled_positions # None
       /\ RowsEqualToPrecision(ret["POSCAR"].val.scaled_positions.val,
                               structure.scaled_positions.val, 15)

\* a scaled round trip of a Structure with two species, the second not
\* first in the alphabet, whose coordinates have more than 15 decimals
C2_Witness ==
    /\ origin.by = "writer" /\ origin.marker = "Direct"
    /\ Returned("POSCAR")
    /\ structure.symbols = <<"Si", "Si", "O">>
    /\ \E i \in 1..3 : \E j \in 1..3 : structure.scaled_positions.val[i][j].exp > 15

\* C3: the text written in Cartesian mode for a Structure with contiguous
\* species is read back as the same symbols, the same cell (to the written
\* decimals) and the Cartesian positions up to the 10 written decimals.
C3_CartesianRoundTrip ==
    origin.by = "writer" /\ origin.marker = "Cartesian" /\ Contiguous(structure.symbols)
        /\ Called("POSCAR")
    => /\ Returned("POSCAR")
       /\ ret["POSCAR"].val.symbols = structure.symbols
       /\ RowsEqualToPrecision(ret["POSCAR"].val.cell, structure.cell, 10)
       /\ ret["POSCAR"].val.positions # None
       /\ RowsEqualToPrecision(ret["POSCAR"].val.positions.val,
                               structure.positions.val, 10)

\* C4, as stated: mass_to_symbol returns the symbol of every entry whose
\* recorded mass is within tolerance of the input, and "H" when there is none.
C4_EveryEntryWithinTolerance ==
    call.fn = "mass_to_symbol"
    => /\ \A i \in Matching(atom_data, call.mass, call.tolerance) :
              call.result = atom_data[i][2]
       /\ Matching(atom_data, call.mass, call.tolerance) = {} => call.result = "H"

\* C4, amended: mass_to_symbol returns the symbol of an entry whose recorded
\* mass is within tolerance of the input provided no earlier entry is within
\* tolerance too, and "H" when no entry is within tolerance.
C4_EntryWithinTolerance ==
    call.fn = "mass_to_symbol"
    => /\ \A i \in Matching(atom_data, call.mass, call.tolerance) :
              (\A j \in Matching(atom_data, call.mass, call.tolerance) : i <= j)
                  => call.result = atom_data[i][2]
       /\ Matching(atom_data, call.mass, call.tolerance) = {} => call.result = "H"

\* a call whose mass is within tolerance of exactly one entry, which is not
\* the first of the table, and whose result is that entry's symbol
C4_Witness ==
    /\ call.fn = "mass_to_symbol"
    /\ \E i \in 2..Len(atom_data) :
          /\ Matching(atom_data, call.mass, call.tolerance) = {i}
          /\ call.result = atom_data[i][2]

\* C5: mass_to_symbol returns the symbol of the first entry, in table order,
\* whose recorded mass is not None and within tolerance; entries without a
\* mass are passed over wherever they stand; the result is "H" when no entry
\* qualifies.
C5_FirstMatchInTableOrder ==
    call.fn = "mass_to_symbol"
    => call.result =
          IF Matching(atom_data, call.mass, call.tolerance) = {} THEN "H"
          ELSE atom_data[MinOf(Matching(atom_data, call.mass, call.tolerance))][2]

\* a call with two entries within tolerance, behind an entry without a mass
C5_Witness ==
    /\ call.fn = "mass_to_symbol"
    /\ Len(atom_data) = 3
    /\ atom_data[1][4] = None
    /\ Matching(atom_data, call.mass, call.tolerance) = {2, 3}
    /\ call.result = atom_data[2][2]

\* C6: the legacy-format file and the modern-format file of one Structure are
\* parsed to identical Structures, whose symbols are the declared species
\* repeated by their counts in declared order; the legacy layout is the one
\* used exactly when line 3 + dimensions does not parse as integers.
C6_LayoutsAgree ==
    origin.by = "author" /\ origin.variant \in {"plain", "flags", "scaled"}
    => /\ \A p \in Paths :
              Called(p) =>
                 /\ Returned(p)
                 /\ ret[p].val.symbols =
                       Flatten(Tuple([i \in 1..Len(RunNames(structure.symbols)) |->
                                   Repeat(RunNames(structure.symbols)[i],
                                          RunCounts(structure.symbols)[i])]))
                 /\ ret[p].layout = "legacy"
                       <=> IntArray(Split(LineAt(SplitLines(fs[p].text),
                                                 3 + number_of_dimensions))) = None
                 /\ ret[p].layout = "legacy" <=> p = PathOf("legacy")
       /\ (\A p \in Paths : Called(p)) =>
              ret[PathOf("modern")].val = ret[PathOf("legacy")].val

\* both files of a Structure with two species were read, in fractional mode
C6_Witness ==
    /\ origin.by = "author" /\ origin.variant = "plain" /\ origin.marker = "Direct"
    /\ structure.symbols = <<"Si", "O", "O">>
    /\ \A p \in Paths : Returned(p)
    /\ ret["POSCAR.vasp4"].val.scaled_positions = Some(structure.scaled_positions.val)

\* C7: for a path that names no file, get_structure_from_poscar fails with a
\* FileNotFoundError, and returns no Structure.
C7_MissingFileRaisesFileNotFound ==
    \A p \in Paths :
        Called(p) /\ ~fs[p].isfile
            => ret[p].tag = "raise" /\ ret[p].err = "FileNotFoundError"

\* C8: the writer emits the species in order of first occurrence, each with
\* the gap between its first occurrence and the next species' (the last
\* against the number of atoms); for contiguous species each count is the
\* number of atoms of the species; the counts always sum to the number of
\* atoms.
C8_SpeciesAndCounts ==
    origin.by = "writer"
    => LET symbols == structure.symbols
           first   == FirstOccurrences(symbols)
           n       == Cardinality(first)
           lines   == SplitLines(fs["POSCAR"].text)
           names   == Split(LineAt(lines, 5))
           counts  == IntArray(Split(LineAt(lines, 6)))
       IN  /\ Len(names) = n
           /\ \A k \in 1..n : names[k] = symbols[Kth(first, k)]
           /\ counts # None
           /\ Len(counts.val) = n
           /\ \A k \in 1..n :
                 counts.val[k] = (IF k = n THEN Len(symbols) + 1 ELSE Kth(first, k + 1))
                                    - Kth(first, k)
           /\ Contiguous(symbols) =>
                 \A k \in 1..n :
                     counts.val[k] = Cardinality({i \in 1..Len(symbols) :
                                                     symbols[i] = names[k]})
           /\ SumSeq(counts.val) = Len(symbols)

\* the writer ran on a Structure whose species are not in alphabetical order
C8_Witness ==
    /\ origin.by = "writer"
    /\ structure.symbols = <<"Si", "Si", "O">>
    /\ Split(LineAt(SplitLines(fs["POSCAR"].text), 5)) = <<"Si", "O">>

\* C9: the cell returned by get_structure_from_lammps has the rows
\* (xhi-xlo, 0, 0), (xy, yhi-ylo, 0), (xz, yz, zhi-zlo).
C9_TriclinicCell ==
    call.fn = "get_structure_from_lammps"
    => call.result.cell =
          << <<call.lmp.boxxhi - call.lmp.boxxlo, 0, 0>>,
             <<call.lmp.xy, call.lmp.boxyhi - call.lmp.boxylo, 0>>,
             <<call.lmp.xz, call.lmp.yz, call.lmp.boxzhi - call.lmp.boxzlo>> >>

\* the box of bounds 0 and 10 with xy = 1 gives the cell
\* [[10,0,0],[1,10,0],[0,0,10]]
C9_Witness ==
    /\ call.fn = "get_structure_from_lammps"
    /\ call.lmp.boxxlo = 0 /\ call.lmp.boxxhi = 10
    /\ call.lmp.boxylo = 0 /\ call.lmp.boxyhi = 10
    /\ call.lmp.boxzlo = 0 /\ call.lmp.boxzhi = 10
    /\ call.lmp.xy = 1 /\ call.lmp.yz = 0 /\ call.lmp.xz = 0
    /\ call.result.cell = << <<10, 0, 0>>, <<1, 10, 0>>, <<0, 0, 10>> >>

\* C10: the legacy layout is entered only when the species-count line
\* (line 3 + dimensions) does not parse as integers; a malformed token in
\* the lattice block or in the coordinate block ends in a parse failure that
\* was not raised under the legacy reading of a modern-format file.
C10_FallbackOnlyOnCountsLine ==
    \A p \in Paths :
        Called(p) /\ fs[p].isfile =>
            /\ ret[p].layout = "legacy"
                  => IntArray(Split(LineAt(SplitLines(fs[p].text),
                                           3 + number_of_dimensions))) = None
            /\ origin.by = "author" /\ origin.variant \in {"lattice", "coords"}
                  => /\ ret[p].tag = "raise"
                     /\ ret[p].err = "ValueError"
                     /\ p = PathOf("modern") => ret[p].layout # "legacy"

=============================================================================
